---- MODULE Spec2Model ----
(***************************************************************************)
(* A model of the tracking core of trackobjs: the Kalman filters           *)
(* KalmanFilterXYAH / KalmanFilterXYWH (trackers/utils/kalman_filter.py)   *)
(* and the association costs (trackers/utils/matching.py).                 *)
(*                                                                         *)
(* Numbers.  The code computes in float64.  The model computes in exact    *)
(* rational arithmetic: a number is a reduced fraction s * n / d whose     *)
(* numerator and denominator are naturals of any size, written as          *)
(* little-endian sequences of limbs in base 2^15 (TLC's own integers are   *)
(* 32 bits wide and the filter's constants 1e-5 ^ 2 do not fit them).      *)
(* Rounding is therefore outside the model; everything else (the order of  *)
(* the matrix products, the indices, the constants) is the code's.         *)
(***************************************************************************)
EXTENDS Integers, Sequences, FiniteSets, TLC

\* ------------------------------------------------------------------------
\* Naturals of any size: <<>> is 0, limb 1 is the least significant.
\* ------------------------------------------------------------------------
Base == 2^15

RECURSIVE NatTrim(_)
NatTrim(a) ==
  IF a = <<>> THEN a
  ELSE IF a[Len(a)] = 0 THEN NatTrim(SubSeq(a, 1, Len(a) - 1)) ELSE a

RECURSIVE NatOfInt(_)
NatOfInt(k) == IF k = 0 THEN <<>> ELSE <<k % Base>> \o NatOfInt(k \div Base)

NatLimb(a, i) == IF i <= Len(a) THEN a[i] ELSE 0

RECURSIVE NatCmpAt(_, _, _)
NatCmpAt(a, b, i) ==
  IF i = 0 THEN 0
  ELSE IF a[i] < b[i] THEN -1
  ELSE IF a[i] > b[i] THEN 1
  ELSE NatCmpAt(a, b, i - 1)

NatCmp(a, b) ==
  IF Len(a) < Len(b) THEN -1
  ELSE IF Len(a) > Len(b) THEN 1
  ELSE NatCmpAt(a, b, Len(a))

RECURSIVE NatAddC(_, _, _, _)
NatAddC(a, b, i, c) ==
  IF i > Len(a) /\ i > Len(b) THEN (IF c = 0 THEN <<>> ELSE <<c>>)
  ELSE <<(NatLimb(a, i) + NatLimb(b, i) + c) % Base>>
       \o NatAddC(a, b, i + 1, (NatLimb(a, i) + NatLimb(b, i) + c) \div Base)

NatAdd(a, b) ==
  IF a = <<>> THEN b ELSE IF b = <<>> THEN a ELSE NatAddC(a, b, 1, 0)

RECURSIVE NatSubB(_, _, _, _)
NatSubB(a, b, i, br) ==
  IF i > Len(a) THEN <<>>
  ELSE <<(a[i] - NatLimb(b, i) - br + Base) % Base>>
       \o NatSubB(a, b, i + 1, IF a[i] - NatLimb(b, i) - br < 0 THEN 1 ELSE 0)

\* a - b for a >= b
NatSub(a, b) == IF b = <<>> THEN a ELSE NatTrim(NatSubB(a, b, 1, 0))

RECURSIVE NatMulLimbC(_, _, _, _)
NatMulLimbC(a, x, i, c) ==
  IF i > Len(a) THEN (IF c = 0 THEN <<>> ELSE <<c>>)
  ELSE <<(a[i] * x + c) % Base>> \o NatMulLimbC(a, x, i + 1, (a[i] * x + c) \div Base)

NatMulLimb(a, x) == IF x = 0 \/ a = <<>> THEN <<>> ELSE NatMulLimbC(a, x, 1, 0)

NatShift(a) == IF a = <<>> THEN a ELSE <<0>> \o a

RECURSIVE NatMulAt(_, _, _)
NatMulAt(a, b, j) ==
  IF j > Len(b) THEN <<>>
  ELSE NatAdd(NatMulLimb(a, b[j]), NatShift(NatMulAt(a, b, j + 1)))

NatMul(a, b) ==
  IF a = <<>> \/ b = <<>> THEN <<>>
  ELSE IF a = <<1>> THEN b
  ELSE IF b = <<1>> THEN a
  ELSE IF Len(a) >= Len(b) THEN NatMulAt(a, b, 1) ELSE NatMulAt(b, a, 1)

\* the largest q in lo..hi with q * b <= r (lo qualifies), by bisection
RECURSIVE NatDigit(_, _, _, _)
NatDigitAt(r, b, lo, hi, mid) ==
  IF NatCmp(NatMulLimb(b, mid), r) <= 0
  THEN NatDigit(r, b, mid, hi)
  ELSE NatDigit(r, b, lo, mid - 1)

NatDigit(r, b, lo, hi) ==
  IF lo = hi THEN lo ELSE NatDigitAt(r, b, lo, hi, (lo + hi + 1) \div 2)

\* the two leading limbs of r seen from limb n
NatTop(r, n) == IF Len(r) > n THEN r[n + 1] * Base + r[n] ELSE r[n]

NatCap(x) == IF x > Base - 1 THEN Base - 1 ELSE x

\* one quotient limb of r \div b, for r < b * Base: the leading limbs bracket it
NatQuot(r, b) ==
  IF NatCmp(r, b) < 0 THEN 0
  ELSE IF Len(b) = 1 THEN NatTop(r, 1) \div b[1]
  ELSE NatDigit(r, b, NatTop(r, Len(b)) \div (b[Len(b)] + 1),
                NatCap(NatTop(r, Len(b)) \div b[Len(b)]))

\* limb x below the limbs of r
NatPush(x, r) == IF r = <<>> THEN (IF x = 0 THEN <<>> ELSE <<x>>) ELSE <<x>> \o r

NatDivPut(rest, d) == [q |-> rest.q \o <<d>>, r |-> rest.r]

\* long division, from limb i of a downwards; r is the running remainder
RECURSIVE NatDivAt(_, _, _, _)
NatDivDigit(a, b, i, r1, d) ==
  IF d = 0 THEN NatDivPut(NatDivAt(a, b, i - 1, r1), 0)
  ELSE NatDivPut(NatDivAt(a, b, i - 1, NatSub(r1, NatMulLimb(b, d))), d)

NatDivStep(a, b, i, r1) == NatDivDigit(a, b, i, r1, NatQuot(r1, b))

NatDivAt(a, b, i, r) ==
  IF i = 0 THEN [q |-> <<>>, r |-> r] ELSE NatDivStep(a, b, i, NatPush(a[i], r))

NatDivTrim(res) == [q |-> NatTrim(res.q), r |-> res.r]

\* [q |-> a \div b, r |-> a % b] for b > 0
NatDivMod(a, b) == NatDivTrim(NatDivAt(a, b, Len(a), <<>>))

NatInt(a) ==
  IF a = <<>> THEN 0 ELSE IF Len(a) = 1 THEN a[1] ELSE a[2] * Base + a[1]

RECURSIVE IntGcd(_, _)
IntGcd(x, y) == IF y = 0 THEN x ELSE IntGcd(y, x % y)

\* Euclid's algorithm
RECURSIVE NatGcd(_, _)
NatGcdNext(b, r) == IF r = <<>> THEN b ELSE NatGcd(b, r)

NatGcd(a, b) ==
  IF b = <<>> THEN a
  ELSE IF Len(a) <= 2 /\ Len(b) <= 2 THEN NatOfInt(IntGcd(NatInt(a), NatInt(b)))
  ELSE NatGcdNext(b, NatDivMod(a, b).r)

\* ------------------------------------------------------------------------
\* Rationals: [s |-> sign, n |-> numerator, d |-> denominator], reduced.
\* ------------------------------------------------------------------------
Zero == [s |-> 0, n |-> <<>>, d |-> <<1>>]

RatReduce(s, n, d, g) ==
  IF g = <<1>> THEN [s |-> s, n |-> n, d |-> d]
  ELSE [s |-> s, n |-> NatDivMod(n, g).q, d |-> NatDivMod(d, g).q]

RatNorm(s, n, d) ==
  IF n = <<>> \/ s = 0 THEN Zero
  ELSE IF d = <<1>> THEN [s |-> s, n |-> n, d |-> d]
  ELSE RatReduce(s, n, d, NatGcd(n, d))

\* the rational p / q for integers p and q > 0
Rat(p, q) ==
  RatNorm(IF p < 0 THEN -1 ELSE IF p = 0 THEN 0 ELSE 1,
          NatOfInt(IF p < 0 THEN -p ELSE p), NatOfInt(q))

One == Rat(1, 1)

RatNeg(x) == [s |-> -x.s, n |-> x.n, d |-> x.d]

RatMul(x, y) ==
  IF x.s = 0 \/ y.s = 0 THEN Zero
  ELSE RatNorm(x.s * y.s, NatMul(x.n, y.n), NatMul(x.d, y.d))

\* sa * a / dd + sb * b / dd, where c compares a and b
RatAddC(sa, a, sb, b, dd, c) ==
  IF c = 0 THEN Zero
  ELSE IF c > 0 THEN RatNorm(sa, NatSub(a, b), dd)
  ELSE RatNorm(sb, NatSub(b, a), dd)

RatAddN(sa, a, sb, b, dd) ==
  IF sa = sb THEN RatNorm(sa, NatAdd(a, b), dd)
  ELSE RatAddC(sa, a, sb, b, dd, NatCmp(a, b))

RatAdd(x, y) ==
  IF x.s = 0 THEN y
  ELSE IF y.s = 0 THEN x
  ELSE IF x.d = y.d THEN RatAddN(x.s, x.n, y.s, y.n, x.d)
  ELSE RatAddN(x.s, NatMul(x.n, y.d), y.s, NatMul(y.n, x.d), NatMul(x.d, y.d))

RatSub(x, y) == RatAdd(x, RatNeg(y))

\* x / y for y # 0
RatDiv(x, y) ==
  IF x.s = 0 THEN Zero
  ELSE RatNorm(x.s * y.s, NatMul(x.n, y.d), NatMul(x.d, y.n))

RatSign(x) == x.s

RatLess(x, y) == RatSign(RatSub(x, y)) < 0

RatLeq(x, y) == RatSign(RatSub(x, y)) <= 0

RatSquare(x) == RatMul(x, x)

\* ------------------------------------------------------------------------
\* numpy arrays: a vector is a sequence of numbers, a matrix a sequence of
\* rows.  Python's index i is index i + 1 here.  Every array is built as a
\* tuple (V and M below), so that its entries are computed once, when the
\* array is built, as numpy does.
\* ------------------------------------------------------------------------
V(f) == f \o <<>>

M(f) == [i \in 1..Len(f) |-> f[i] \o <<>>] \o <<>>

RECURSIVE SumTo(_, _)
\* term[1] + ... + term[n]
SumTo(term, n) == IF n = 0 THEN Zero ELSE RatAdd(SumTo(term, n - 1), term[n])

Rows(A) == Len(A)
Cols(A) == IF A = <<>> THEN 0 ELSE Len(A[1])

\* numpy.dot of two matrices
Dot(A, B) ==
  M([i \in 1..Rows(A) |-> [j \in 1..Cols(B) |->
       SumTo([k \in 1..Rows(B) |-> RatMul(A[i][k], B[k][j])], Rows(B))]])

\* numpy.dot of a vector and a matrix
DotVM(v, B) ==
  V([j \in 1..Cols(B) |-> SumTo([k \in 1..Rows(B) |-> RatMul(v[k], B[k][j])], Rows(B))])

\* numpy.dot of a matrix and a vector
DotMV(A, v) ==
  V([i \in 1..Rows(A) |-> SumTo([k \in 1..Len(v) |-> RatMul(A[i][k], v[k])], Len(v))])

\* A.T
Transpose(A) == M([j \in 1..Cols(A) |-> [i \in 1..Rows(A) |-> A[i][j]]])

MatAdd(A, B) == M([i \in 1..Rows(A) |-> [j \in 1..Cols(A) |-> RatAdd(A[i][j], B[i][j])]])
\* A + B in the place of A - B (a deliberate fault)
MatSubAsSum(A, B) == M([i \in 1..Rows(A) |-> [j \in 1..Cols(A) |-> RatAdd(A[i][j], B[i][j])]])

\* B - A: the operands of MatSub exchanged (a deliberate fault)
MatSubReversed(A, B) == M([i \in 1..Rows(A) |-> [j \in 1..Cols(A) |-> RatSub(B[i][j], A[i][j])]])

MatSub(A, B) == M([i \in 1..Rows(A) |-> [j \in 1..Cols(A) |-> RatSub(A[i][j], B[i][j])]])
\* u - v in the place of u + v (a deliberate fault)
VecSub(u, v) == V([i \in 1..Len(u) |-> RatSub(u[i], v[i])])
VecAdd(u, v) == V([i \in 1..Len(u) |-> RatAdd(u[i], v[i])])

\* numpy.diag(d)
Diag(d) == M([i \in 1..Len(d) |-> [j \in 1..Len(d) |-> IF i = j THEN d[i] ELSE Zero]])

\* numpy.square(std)
Square(std) == V([i \in 1..Len(std) |-> RatSquare(std[i])])

\* numpy.linalg.multi_dot of three matrices: (AB)C when that is strictly
\* cheaper, A(BC) otherwise (numpy's _multi_dot_three)
MultiDotCost1(a0, a1b0, b1c0, c1) == a0 * b1c0 * (a1b0 + c1)
MultiDotCost2(a0, a1b0, b1c0, c1) == a1b0 * c1 * (a0 + b1c0)

MultiDot(A, B, C) ==
  IF MultiDotCost1(Rows(A), Cols(A), Cols(B), Cols(C))
       < MultiDotCost2(Rows(A), Cols(A), Cols(B), Cols(C))
  THEN Dot(Dot(A, B), C)
  ELSE Dot(A, Dot(B, C))

\* ------------------------------------------------------------------------
\* KalmanFilterXYAH.__init__: the model matrices and the noise weights
\* ------------------------------------------------------------------------
Variants == {"XYAH", "XYWH"}

ndim == 4

\* dt set at [ndim + i, i] in place of [i, ndim + i] (a deliberate fault)
MotionMatTransposed ==
  M([i \in 1..(2 * ndim) |-> [j \in 1..(2 * ndim) |->
       IF i = j \/ (j <= ndim /\ i = ndim + j) THEN One ELSE Zero]])

\* the identity with dt = 1 at [i, ndim + i]
_motion_mat ==
  M([i \in 1..(2 * ndim) |-> [j \in 1..(2 * ndim) |->
       IF i = j \/ (i <= ndim /\ j = ndim + i) THEN One ELSE Zero]])

_update_mat ==
  M([i \in 1..ndim |-> [j \in 1..(2 * ndim) |-> IF i = j THEN One ELSE Zero]])

_std_weight_position == Rat(1, 20)
_std_weight_velocity == Rat(1, 160)

\* the literals 2, 10, 1e-2, 1e-5 and 1e-1 of the standard deviations
Two == Rat(2, 1)
Ten == Rat(10, 1)
Em2 == Rat(1, 100)
Em5 == Rat(1, 100000)
Em1 == Rat(1, 10)

Wp(x)   == RatMul(_std_weight_position, x)
Wv(x)   == RatMul(_std_weight_velocity, x)
\* the factor 2 of initiate left out (a deliberate fault)
WpUnscaled(x) == RatMul(_std_weight_position, x)
Wp2(x)  == RatMul(RatMul(Two, _std_weight_position), x)
Wv10(x) == RatMul(RatMul(Ten, _std_weight_velocity), x)

\* ------------------------------------------------------------------------
\* initiate
\* ------------------------------------------------------------------------
\* the list std without the velocity terms (a deliberate fault)
InitiateStdNoVelocity(kf, m) ==
  IF kf = "XYAH"
  THEN << Wp2(m[4]), Wp2(m[4]), Em2, Wp2(m[4]), Zero, Zero, Zero, Zero >>
  ELSE << Wp2(m[3]), Wp2(m[4]), Wp2(m[3]), Wp2(m[4]), Zero, Zero, Zero, Zero >>

\* the list std of initiate; measurement[3] is m[4], measurement[2] is m[3]
InitiateStd(kf, m) ==
  IF kf = "XYAH"
  THEN << Wp2(m[4]), Wp2(m[4]), Em2, Wp2(m[4]),
          Wv10(m[4]), Wv10(m[4]), Em5, Wv10(m[4]) >>
  ELSE << Wp2(m[3]), Wp2(m[4]), Wp2(m[3]), Wp2(m[4]),
          Wv10(m[3]), Wv10(m[4]), Wv10(m[3]), Wv10(m[4]) >>

\* initiate(measurement) for a one-dimensional measurement of any length:
\* the only failure is the IndexError of measurement[3] (measurement[2])
initiate(kf, m) ==
  IF Len(m) < 4
  THEN [tag |-> "IndexError"]
  ELSE [tag        |-> "ok",
        mean       |-> m \o [i \in 1..Len(m) |-> Zero],
        covariance |-> Diag(Square(InitiateStd(kf, m)))]

\* ------------------------------------------------------------------------
\* predict
\* ------------------------------------------------------------------------
PredictStd(kf, mean) ==
  IF kf = "XYAH"
  THEN << Wp(mean[4]), Wp(mean[4]), Em2, Wp(mean[4]),
          Wv(mean[4]), Wv(mean[4]), Em5, Wv(mean[4]) >>
  ELSE << Wp(mean[3]), Wp(mean[4]), Wp(mean[3]), Wp(mean[4]),
          Wv(mean[3]), Wv(mean[4]), Wv(mean[3]), Wv(mean[4]) >>

predict(kf, mean, covariance) ==
  [mean       |-> DotVM(mean, Transpose(_motion_mat)),
   covariance |-> MatAdd(MultiDot(_motion_mat, covariance, Transpose(_motion_mat)),
                         Diag(Square(PredictStd(kf, mean))))]

\* ------------------------------------------------------------------------
\* project
\* ------------------------------------------------------------------------
\* the aspect-ratio constant of predict used by project (a deliberate fault)
ProjectStdOfPredict(kf, mean) ==
  IF kf = "XYAH"
  THEN << Wp(mean[4]), Wp(mean[4]), Em2, Wp(mean[4]) >>
  ELSE << Wp(mean[3]), Wp(mean[4]), Wp(mean[3]), Wp(mean[4]) >>

\* the list std of project
ProjectStd(kf, mean) ==
  IF kf = "XYAH"
  THEN << Wp(mean[4]), Wp(mean[4]), Em1, Wp(mean[4]) >>
  ELSE << Wp(mean[3]), Wp(mean[4]), Wp(mean[3]), Wp(mean[4]) >>

\* the projection of the base class for both variants, as a call of
\* KalmanFilterXYAH.project in the place of self.project (a deliberate fault)
ProjectOfBaseClass(kf, mean, covariance) ==
  [mean       |-> DotMV(_update_mat, mean),
   covariance |-> MatAdd(MultiDot(_update_mat, covariance, Transpose(_update_mat)),
                         Diag(Square(ProjectStd("XYAH", mean))))]

\* self.project(mean, covariance): the method of the class of self
project(kf, mean, covariance) ==
  [mean       |-> DotMV(_update_mat, mean),
   covariance |-> MatAdd(MultiDot(_update_mat, covariance, Transpose(_update_mat)),
                         Diag(Square(ProjectStd(kf, mean))))]

\* ------------------------------------------------------------------------
\* multi_predict: mean is N x 8, covariance is N x 8 x 8
\* ------------------------------------------------------------------------
\* the entry of the first state for every state: mean[0, c] (a deliberate
\* fault)
ColumnOfFirstState(mean, c) == V([n \in 1..Len(mean) |-> mean[1][c]])

\* mean[:, c] for Python's column c - 1
Column(mean, c) == V([n \in 1..Len(mean) |-> mean[n][c]])

\* w * c and the constant x, entry by entry
StdColumn(w, c) == V([n \in 1..Len(c) |-> RatMul(w, c[n])])
ConstColumn(x, c) == V([n \in 1..Len(c) |-> x])

\* numpy.r_[std_pos, std_vel]: 8 x N, row r the r-th standard deviation of
\* every state
MultiPredictStd(kf, mean) ==
  IF kf = "XYAH"
  THEN << StdColumn(_std_weight_position, Column(mean, 4)),
          StdColumn(_std_weight_position, Column(mean, 4)),
          ConstColumn(Em2, mean),
          StdColumn(_std_weight_position, Column(mean, 4)),
          StdColumn(_std_weight_velocity, Column(mean, 4)),
          StdColumn(_std_weight_velocity, Column(mean, 4)),
          ConstColumn(Em5, mean),
          StdColumn(_std_weight_velocity, Column(mean, 4)) >>
  ELSE << StdColumn(_std_weight_position, Column(mean, 3)),
          StdColumn(_std_weight_position, Column(mean, 4)),
          StdColumn(_std_weight_position, Column(mean, 3)),
          StdColumn(_std_weight_position, Column(mean, 4)),
          StdColumn(_std_weight_velocity, Column(mean, 3)),
          StdColumn(_std_weight_velocity, Column(mean, 4)),
          StdColumn(_std_weight_velocity, Column(mean, 3)),
          StdColumn(_std_weight_velocity, Column(mean, 4)) >>

\* the noise of the first state for every state of the batch (a deliberate
\* fault)
MultiPredictSqrFirst(std) ==
  M([n \in 1..Len(std[1]) |-> [r \in 1..Len(std) |-> RatSquare(std[r][1])]])

\* sqr = numpy.square(numpy.r_[std_pos, std_vel]).T: N x 8
MultiPredictSqr(std) ==
  M([n \in 1..Len(std[1]) |-> [r \in 1..Len(std) |-> RatSquare(std[r][n])]])

\* covariance[n] + numpy.diag(sqr[n]) for every n
MultiPredictAdd(cov, sqr) == V([n \in 1..Len(cov) |-> MatAdd(cov[n], Diag(sqr[n]))])

\* numpy.dot(A, T) of a matrix and an N x 8 x 8 array: [i, n, k]
DotM3(A, T) ==
  V([i \in 1..Rows(A) |-> M([n \in 1..Len(T) |-> [k \in 1..Cols(T[n]) |->
       SumTo([j \in 1..Cols(A) |-> RatMul(A[i][j], T[n][j][k])], Cols(A))]])])

\* T.transpose((1, 0, 2))
Transpose102(T) ==
  M([n \in 1..Len(T[1]) |-> [i \in 1..Len(T) |-> T[i][n]]])

\* numpy.dot(T, B) of an N x 8 x 8 array and a matrix: [n, i, l]
Dot3M(T, B) == V([n \in 1..Len(T) |-> Dot(T[n], B)])

multi_predict(kf, mean, covariance) ==
  [mean       |-> Dot(mean, Transpose(_motion_mat)),
   covariance |-> MultiPredictAdd(
                    Dot3M(Transpose102(DotM3(_motion_mat, covariance)),
                          Transpose(_motion_mat)),
                    MultiPredictSqr(MultiPredictStd(kf, mean)))]

\* ------------------------------------------------------------------------
\* Cholesky.  scipy.linalg.cho_factor(A, lower=True) and
\* numpy.linalg.cholesky(A) read the lower triangle of A and compute
\* A = C C^T column by column; column j starts from the pivot
\* A[j,j] - sum_k C[j,k]^2 and fails (LinAlgError) when that pivot is not
\* positive.  The model keeps the factor without its square roots,
\* C = L sqrt(D) with L unit lower triangular and D the pivots, which are
\* the same numbers; every quantity the code derives from C (the solution of
\* cho_solve, the squared Mahalanobis distance) is rational in L and D.
\* ------------------------------------------------------------------------
\* the pivot of column j
ChoPivot(A, j, L, D) ==
  RatSub(A[j][j], SumTo([k \in 1..(j - 1) |-> RatMul(RatSquare(L[j][k]), D[k])], j - 1))

\* entry i of column j, below the diagonal
ChoEntry(A, i, j, L, D, dj) ==
  RatDiv(RatSub(A[i][j],
                SumTo([k \in 1..(j - 1) |-> RatMul(RatMul(L[i][k], L[j][k]), D[k])], j - 1)),
         dj)

\* L with its column j filled in
ChoColumn(A, j, L, D, dj) ==
  M([i \in 1..Len(A) |-> [c \in 1..Len(A) |->
       IF c # j THEN L[i][c]
       ELSE IF i = j THEN One
       ELSE IF i > j THEN ChoEntry(A, i, j, L, D, dj)
       ELSE Zero]])

RECURSIVE ChoFrom(_, _, _, _)
ChoStep(A, j, L, D, dj) ==
  IF RatSign(dj) <= 0 THEN [ok |-> FALSE, L |-> L, D |-> D]
  ELSE ChoFrom(A, j + 1, ChoColumn(A, j, L, D, dj), Append(D, dj))

ChoFrom(A, j, L, D) ==
  IF j > Len(A) THEN [ok |-> TRUE, L |-> L, D |-> D]
  ELSE ChoStep(A, j, L, D, ChoPivot(A, j, L, D))

cho_factor(A) ==
  ChoFrom(A, 1, M([i \in 1..Len(A) |-> [c \in 1..Len(A) |-> Zero]]), <<>>)

\* forward substitution L y = b
RECURSIVE ForwardFrom(_, _, _, _)
ForwardFrom(L, b, i, y) ==
  IF i > Len(b) THEN y
  ELSE ForwardFrom(L, b, i + 1,
         Append(y, RatSub(b[i], SumTo([k \in 1..(i - 1) |-> RatMul(L[i][k], y[k])], i - 1))))

\* back substitution L^T x = z; xs holds x[i+1..n]
RECURSIVE BackwardFrom(_, _, _, _)
BackwardFrom(L, z, i, xs) ==
  IF i = 0 THEN xs
  ELSE BackwardFrom(L, z, i - 1,
         <<RatSub(z[i], SumTo([k \in 1..(Len(z) - i) |-> RatMul(L[i + k][i], xs[k])],
                              Len(z) - i))>> \o xs)

\* y / D, entry by entry
ChoScale(y, D) == V([i \in 1..Len(y) |-> RatDiv(y[i], D[i])])

\* the solution x of A x = b from the factor of A
ChoSolveVec(c, b) ==
  BackwardFrom(c.L, ChoScale(ForwardFrom(c.L, b, 1, <<>>), c.D), Len(b), <<>>)

\* scipy.linalg.cho_solve((c, lower), B): A^-1 B, column by column
cho_solve(c, B) ==
  Transpose(V([r \in 1..Cols(B) |-> ChoSolveVec(c, Column(B, r))]))

\* ------------------------------------------------------------------------
\* update
\* ------------------------------------------------------------------------
\* a - b for one-dimensional arrays under numpy's broadcasting
Broadcastable(a, b) == Len(a) = Len(b) \/ Len(a) = 1 \/ Len(b) = 1

\* the length of the broadcast of two lengths that can be broadcast
BroadcastLen(a, b) == IF Len(a) = 1 THEN Len(b) ELSE Len(a)

BroadcastSub(a, b) ==
  V([i \in 1..BroadcastLen(a, b) |->
       RatSub(IF Len(a) = 1 THEN a[1] ELSE a[i], IF Len(b) = 1 THEN b[1] ELSE b[i])])

\* new_mean and new_covariance from the gain and the innovation
UpdateGain(mean, covariance, innovation, projected_cov, kalman_gain) ==
  [tag        |-> "ok",
   mean       |-> VecAdd(mean, DotVM(innovation, Transpose(kalman_gain))),
   covariance |-> MatSub(covariance,
                         MultiDot(kalman_gain, projected_cov, Transpose(kalman_gain)))]

\* from the Cholesky factor c of the projected covariance on
UpdateFactored(mean, covariance, measurement, p, c) ==
  IF ~c.ok THEN [tag |-> "LinAlgError"]
  ELSE IF ~Broadcastable(measurement, p.mean) THEN [tag |-> "ValueError"]
  ELSE UpdateGain(mean, covariance, BroadcastSub(measurement, p.mean), p.covariance,
                  Transpose(cho_solve(c, Transpose(Dot(covariance,
                                                       Transpose(_update_mat))))))

UpdateProjected(mean, covariance, measurement, p) ==
  UpdateFactored(mean, covariance, measurement, p, cho_factor(p.covariance))

update(kf, mean, covariance, measurement) ==
  UpdateProjected(mean, covariance, measurement, project(kf, mean, covariance))

\* ------------------------------------------------------------------------
\* gating_distance.  measurements is a two-dimensional array, kept with its
\* number of columns so that an array without rows still has a shape:
\* [cols |-> c, rows |-> the N rows of c numbers].
\* ------------------------------------------------------------------------
Metrics == {"gaussian", "maha"}

\* a[:2]
Head2(a) == SubSeq(a, 1, IF Len(a) < 2 THEN Len(a) ELSE 2)

\* measurements[:, :2]
Columns2(measurements) ==
  [cols |-> IF measurements.cols > 2 THEN 2 ELSE measurements.cols,
   rows |-> V([n \in 1..Len(measurements.rows) |-> Head2(measurements.rows[n])])]

\* sum over the components of z * z, z the solution of C z = d
MahaSum(z, D) == SumTo([i \in 1..Len(z) |-> RatDiv(RatSquare(z[i]), D[i])], Len(z))

GatingMaha(d, c) ==
  IF ~c.ok THEN [tag |-> "LinAlgError", msg |-> "Matrix is not positive definite"]
  ELSE [tag |-> "ok",
        val |-> V([n \in 1..Len(d) |-> MahaSum(ForwardFrom(c.L, d[n], 1, <<>>), c.D)])]

\* the squared distance for every metric name but "maha" (a deliberate fault)
GatingMetricDefault(d, covariance, metric) ==
  IF metric = "maha" THEN GatingMaha(d, cho_factor(covariance))
  ELSE [tag |-> "ok",
        val |-> V([n \in 1..Len(d) |->
                     SumTo([i \in 1..Len(d[n]) |-> RatSquare(d[n][i])], Len(d[n]))])]

\* the Mahalanobis distance for "gaussian" too (a deliberate fault)
GatingMetricAlwaysMaha(d, covariance, metric) ==
  IF metric \in {"gaussian", "maha"} THEN GatingMaha(d, cho_factor(covariance))
  ELSE [tag |-> "ValueError", msg |-> "Invalid distance metric"]

\* the metric applied to d = measurements - mean
GatingMetric(d, covariance, metric) ==
  IF metric = "gaussian"
  THEN [tag |-> "ok",
        val |-> V([n \in 1..Len(d) |->
                     SumTo([i \in 1..Len(d[n]) |-> RatSquare(d[n][i])], Len(d[n]))])]
  ELSE IF metric = "maha" THEN GatingMaha(d, cho_factor(covariance))
  ELSE [tag |-> "ValueError", msg |-> "Invalid distance metric"]

GatingDistances(mean, covariance, measurements, metric) ==
  IF ~(measurements.cols = Len(mean) \/ measurements.cols = 1 \/ Len(mean) = 1)
  THEN [tag |-> "ValueError", msg |-> "operands could not be broadcast together"]
  ELSE GatingMetric(V([n \in 1..Len(measurements.rows) |->
                         BroadcastSub(measurements.rows[n], mean)]),
                    covariance, metric)

GatingProjected(p, measurements, only_position, metric) ==
  IF only_position
  THEN GatingDistances(Head2(p.mean), M([i \in 1..2 |-> Head2(p.covariance[i])]),
                       Columns2(measurements), metric)
  ELSE GatingDistances(p.mean, p.covariance, measurements, metric)

gating_distance(kf, mean, covariance, measurements, only_position, metric) ==
  GatingProjected(project(kf, mean, covariance), measurements, only_position, metric)

\* ------------------------------------------------------------------------
\* The tracks of a tracker that drives one estimator: every track holds the
\* belief (mean, covariance) the estimator returned last, and the calls
\* that produced it.
\* ------------------------------------------------------------------------
VARIABLES kf, tracks, steps, call, ret

vars == <<kf, tracks, steps, call, ret>>

\* bounds of the exploration
MaxTracks == 2
MaxSteps == 3

\* a list of integers as a vector of numbers
RatVec(v) == V([i \in 1..Len(v) |-> Rat(v[i], 1)])

\* measurements that satisfy initiate's and update's precondition
ValidMeasurements == { <<10, 10, 1, 20>>, <<11, 10, 1, 20>>, <<4, 6, 2, 8>> }

NoCall == [op |-> "none"]

Init ==
  /\ kf \in Variants
  /\ tracks = <<>>
  /\ steps = 0
  /\ call = NoCall
  /\ ret = NoCall

\* the track of a belief and the calls that produced it
Track(r, hist) == [mean |-> r.mean, covariance |-> r.covariance, hist |-> hist]

\* a new track from a detection: mean, covariance = kf.initiate(m)
Initiate(m) ==
  /\ steps < MaxSteps
  /\ Len(tracks) < MaxTracks
  /\ ret' = [op |-> "initiate", arg |-> m, out |-> initiate(kf, RatVec(m))]
  /\ tracks' = Append(tracks, Track(ret'.out, << [op |-> "initiate", arg |-> m] >>))
  /\ steps' = steps + 1
  /\ UNCHANGED <<kf, call>>

\* the last call of track k was an update
LastUpdated(k) == tracks[k].hist[Len(tracks[k].hist)].op = "update"

\* track k one step ahead: mean, covariance = kf.predict(mean, covariance);
\* a run of MaxSteps calls that ends with an update goes on with the
\* prediction of the corrected track, as the next frame does
Predict(k) ==
  /\ k \in 1..Len(tracks)
  /\ steps < MaxSteps \/ (steps = MaxSteps /\ LastUpdated(k))
  /\ ret' = [op |-> "predict", arg |-> k,
             out |-> predict(kf, tracks[k].mean, tracks[k].covariance)]
  /\ tracks' = [tracks EXCEPT ![k] =
                  Track(ret'.out, Append(@.hist, [op |-> "predict", arg |-> <<>>]))]
  /\ steps' = steps + 1
  /\ UNCHANGED <<kf, call>>

\* all tracks one step ahead in one call of kf.multi_predict
MultiPredict ==
  /\ steps < MaxSteps
  /\ Len(tracks) >= 1
  /\ ret' = [op  |-> "multi_predict",
             arg |-> [mean       |-> V([k \in 1..Len(tracks) |-> tracks[k].mean]),
                      covariance |-> V([k \in 1..Len(tracks) |-> tracks[k].covariance])],
             out |-> multi_predict(kf, V([k \in 1..Len(tracks) |-> tracks[k].mean]),
                                   V([k \in 1..Len(tracks) |-> tracks[k].covariance]))]
  /\ tracks' = V([k \in 1..Len(tracks) |->
                    [mean       |-> ret'.out.mean[k],
                     covariance |-> ret'.out.covariance[k],
                     hist       |-> Append(tracks[k].hist,
                                           [op |-> "predict", arg |-> <<>>])]])
  /\ steps' = steps + 1
  /\ UNCHANGED <<kf, call>>

\* track k corrected by a matched detection z:
\* mean, covariance = kf.update(mean, covariance, z); an exception leaves the
\* track as it was
Update(k, z) ==
  /\ steps < MaxSteps
  /\ k \in 1..Len(tracks)
  /\ ret' = [op |-> "update", arg |-> [k |-> k, z |-> z, before |-> tracks[k]],
             out |-> update(kf, tracks[k].mean, tracks[k].covariance, RatVec(z))]
  /\ tracks' = IF ret'.out.tag = "ok"
               THEN [tracks EXCEPT ![k] =
                       Track(ret'.out, Append(@.hist, [op |-> "update", arg |-> z]))]
               ELSE tracks
  /\ steps' = steps + 1
  /\ UNCHANGED <<kf, call>>

Next ==
  \/ \E m \in ValidMeasurements : Initiate(m)
  \/ \E k \in 1..MaxTracks : Predict(k)
  \/ MultiPredict
  \/ \E k \in 1..MaxTracks, z \in ValidMeasurements : Update(k, z)

Spec == Init /\ [][Next]_vars

\* ------------------------------------------------------------------------
\* Single calls of the estimator with arguments of the caller's choice: the
\* estimator validates nothing, so a caller can pass any array.
\* ------------------------------------------------------------------------
\* rows of a measurement array
MaxRows == 2

ColumnCounts == 1..5

RowPool == << <<11, 10, 1, 20, 7>>, <<12, 10, 1, 20, 5>>, <<4, 6, 2, 8, 3>> >>

\* the N x c array of the first c numbers of the first N rows of the pool
MeasurementArray(N, c) ==
  [cols |-> c, rows |-> V([n \in 1..N |-> RatVec(SubSeq(RowPool[n], 1, c))])]

MeasurementArrays == { MeasurementArray(N, c) : N \in 0..MaxRows, c \in ColumnCounts }

MetricNames == Metrics \cup {"euclidean", ""}

\* measurements passed to initiate: valid ones, ones with a size that is
\* zero or negative, and ones that do not have four components
InitiateMeasurements ==
  ValidMeasurements
    \cup { <<10, 10, 1, 0>>, <<10, 10, 1, -20>>, <<10, 10, 0, 20>>, <<10, 10, -1, 20>> }
    \cup { <<10, 10, 1, 20, 7>>, <<10, 10, 1>>, <<10>> }

\* covariances a caller can pass: positive semi-definite and singular ones,
\* ones that are not positive semi-definite, one that is not symmetric
ZeroVariances        == << 0, 0, 0, 0, 0, 0, 0, 0 >>
NoPositionVariance   == << 0, 1, 1, 1, 1, 1, 1, 1 >>
NoVelocityVariances  == << 1, 1, 1, 1, 0, 0, 0, 0 >>
NegativeVelocity     == << 1, 1, 1, 1, -1, 1, 1, 1 >>
NegativePosition     == << -4, 1, 1, 1, 1, 1, 1, 1 >>

SlightlyNegativePosition ==
  Diag(<< Rat(-1, 2), One, One, One, One, One, One, One >>)

NotSymmetric ==
  M([i \in 1..(2 * ndim) |-> [j \in 1..(2 * ndim) |->
       IF i = j \/ (i = 1 /\ j = 2) THEN One ELSE Zero]])

CallerCovariances ==
  { Diag(RatVec(d)) : d \in { ZeroVariances, NoPositionVariance, NoVelocityVariances,
                              NegativeVelocity, NegativePosition } }
    \cup { SlightlyNegativePosition, NotSymmetric }

CallerMean   == RatVec(<< 10, 10, 1, 20, 0, 0, 0, 0 >>)
ZeroSizeMean == RatVec(<< 10, 10, 0, 0, 0, 0, 0, 0 >>)

Belief(r) == [mean |-> r.mean, covariance |-> r.covariance]

\* the states a caller can pass to variant k: beliefs the estimator returned
\* and beliefs of the caller's own making
CallerBeliefs(k) ==
  { Belief(initiate(k, RatVec(m))) : m \in ValidMeasurements }
    \cup { Belief(predict(k, initiate(k, RatVec(m)).mean, initiate(k, RatVec(m)).covariance)) :
             m \in ValidMeasurements }
    \cup { [mean |-> CallerMean, covariance |-> C] : C \in CallerCovariances }
    \cup { [mean |-> ZeroSizeMean, covariance |-> Diag(RatVec(ZeroVariances))] }

\* measurements passed to update for a state with the given mean: the
\* projected mean itself, another valid one, and ones of the wrong length
UpdateMeasurements(mean) ==
  { SubSeq(mean, 1, ndim), RatVec(<<11, 10, 1, 20>>),
    RatVec(<<5>>), RatVec(<<10, 10, 1>>), RatVec(<<10, 10, 1, 20, 7>>) }

Calls(k) ==
  { [op |-> "initiate", measurement |-> m] : m \in InitiateMeasurements }
    \cup UNION { { [op |-> "update", mean |-> b.mean, covariance |-> b.covariance,
                    measurement |-> z] : z \in UpdateMeasurements(b.mean) } :
                 b \in CallerBeliefs(k) }
    \cup { [op |-> "gating_distance", mean |-> b.mean, covariance |-> b.covariance,
            measurements |-> ms, only_position |-> o, metric |-> mt] :
             b \in CallerBeliefs(k), ms \in MeasurementArrays, o \in BOOLEAN,
             mt \in MetricNames }

InitCalls ==
  /\ kf \in Variants
  /\ tracks = <<>>
  /\ steps = 0
  /\ call \in Calls(kf)
  /\ ret = NoCall

CallInitiate ==
  /\ call.op = "initiate"
  /\ ret = NoCall
  /\ ret' = [op |-> "initiate", out |-> initiate(kf, RatVec(call.measurement))]
  /\ UNCHANGED <<kf, tracks, steps, call>>

CallUpdate ==
  /\ call.op = "update"
  /\ ret = NoCall
  /\ ret' = [op |-> "update",
             out |-> update(kf, call.mean, call.covariance, call.measurement)]
  /\ UNCHANGED <<kf, tracks, steps, call>>

CallGatingDistance ==
  /\ call.op = "gating_distance"
  /\ ret = NoCall
  /\ ret' = [op |-> "gating_distance",
             out |-> gating_distance(kf, call.mean, call.covariance, call.measurements,
                                     call.only_position, call.metric)]
  /\ UNCHANGED <<kf, tracks, steps, call>>

NextCalls == CallInitiate \/ CallUpdate \/ CallGatingDistance

SpecCalls == InitCalls /\ [][NextCalls]_vars

\* ------------------------------------------------------------------------
\* matching.py.  A matrix is [shape |-> <<N, M>>, rows |-> its N rows]; an
\* object (a track or a detection) is a record of its attributes, and
\* reading an attribute it does not have raises AttributeError.
\* ------------------------------------------------------------------------
\* numpy.zeros((N, M))
zeros(N, K) ==
  [shape |-> <<N, K>>, rows |-> M([i \in 1..N |-> [j \in 1..K |-> Zero]])]

\* cost_matrix.size
Size(matrix) == matrix.shape[1] * matrix.shape[2]

HasAttr(objects, attr) == \A i \in 1..Len(objects) : attr \in DOMAIN objects[i]

\* the square root of a square number
RECURSIVE IntSqrtFrom(_, _)
IntSqrtFrom(x, r) == IF r * r >= x THEN r ELSE IntSqrtFrom(x, r + 1)

\* the square root of a rational whose numerator and denominator are squares
RatSqrt(x) == Rat(IntSqrtFrom(NatInt(x.n), 0), IntSqrtFrom(NatInt(x.d), 0))

InnerProduct(u, v) == SumTo([i \in 1..Len(u) |-> RatMul(u[i], v[i])], Len(u))

\* the metrics of scipy's cdist that the model computes
CdistMetrics == {"cosine", "euclidean", "sqeuclidean"}

SqEuclidean(u, v) == SumTo([i \in 1..Len(u) |-> RatSquare(RatSub(u[i], v[i]))], Len(u))

\* the float that is not a number: 0.0 / 0.0
NaN == [nan |-> TRUE]

IsNaN(x) == "nan" \in DOMAIN x

\* the exact distance; the cosine distance divides by the product of the
\* norms, which is 0.0 / 0.0 for an embedding of norm 0
Distance(u, v, metric) ==
  IF metric = "cosine"
  THEN IF RatSign(InnerProduct(u, u)) = 0 \/ RatSign(InnerProduct(v, v)) = 0
       THEN NaN
       ELSE RatSub(One, RatDiv(InnerProduct(u, v),
                               RatMul(RatSqrt(InnerProduct(u, u)),
                                      RatSqrt(InnerProduct(v, v)))))
  ELSE IF metric = "euclidean" THEN RatSqrt(SqEuclidean(u, v))
  ELSE SqEuclidean(u, v)

\* the float that cdist returns for the exact distance x: x with the
\* rounding error err of the floating-point evaluation
Rounded(x, err) == IF IsNaN(x) THEN x ELSE RatAdd(x, err)

\* the clamp left out (a deliberate fault)
Maximum0Omitted(x) == x

\* numpy.maximum(0.0, x); a NaN propagates
Maximum0(x) == IF IsNaN(x) THEN x ELSE IF RatSign(x) < 0 THEN Zero ELSE x

\* numpy.maximum(0.0, cdist(XA, XB, metric))
ClippedCdist(XA, XB, metric, err) ==
  IF metric \notin CdistMetrics
  THEN [tag |-> "ValueError", msg |-> "Unknown Distance Metric"]
  ELSE [tag |-> "ok", reads |-> Len(XA) + Len(XB),
        val |-> [shape |-> <<Len(XA), Len(XB)>>,
                 rows  |-> M([i \in 1..Len(XA) |-> [j \in 1..Len(XB) |->
                                Maximum0(Rounded(Distance(XA[i], XB[j], metric), err))]])]]

\* embedding_distance(tracks, detections, metric); err is the rounding error
\* of cdist in this call, and reads counts the attributes of tracks and
\* detections that were read
embedding_distance(trks, detections, metric, err) ==
  IF Size(zeros(Len(trks), Len(detections))) = 0
  THEN [tag |-> "ok", reads |-> 0, val |-> zeros(Len(trks), Len(detections))]
  ELSE IF ~HasAttr(detections, "curr_feat") \/ ~HasAttr(trks, "smooth_feat")
  THEN [tag |-> "AttributeError"]
  ELSE ClippedCdist(V([i \in 1..Len(trks) |-> trks[i].smooth_feat]),
                    V([j \in 1..Len(detections) |-> detections[j].curr_feat]),
                    metric, err)

\* isinstance(x, numpy.ndarray): a box passed as an array is the record
\* [ndarray |-> its numbers]
IsArray(x) == "ndarray" \in DOMAIN x

\* line 52: raw boxes when the first element of either list is an array
RawBoxes(atracks, btracks) ==
  \/ atracks # <<>> /\ IsArray(atracks[1])
  \/ btracks # <<>> /\ IsArray(btracks[1])

\* track.xywha if track.angle is not None else track.xyxy; the angle is <<>>
\* for None and <<a>> for the angle a
BoxOf(track) ==
  IF track.angle # <<>> THEN [ndarray |-> track.xywha] ELSE [ndarray |-> track.xyxy]

\* 1 - ious
OneMinus(matrix) ==
  [shape |-> matrix.shape,
   rows  |-> M([i \in 1..matrix.shape[1] |-> [j \in 1..matrix.shape[2] |->
                  RatSub(One, matrix.rows[i][j])]])]

\* lines 59-72 on the two lists of boxes.  batch_probiou and bbox_ioa are
\* names that matching.py neither defines nor imports: the call raises
\* NameError before its arguments are evaluated.  len() of an element that
\* is no array raises TypeError.
IouOfBoxes(atlbrs, btlbrs, reads) ==
  IF Len(atlbrs) # 0 /\ Len(btlbrs) # 0
  THEN IF ~IsArray(atlbrs[1]) THEN [tag |-> "TypeError"]
       ELSE IF Len(atlbrs[1].ndarray) # 5
       THEN [tag |-> "NameError", msg |-> "name 'bbox_ioa' is not defined"]
       ELSE IF ~IsArray(btlbrs[1]) THEN [tag |-> "TypeError"]
       ELSE IF Len(btlbrs[1].ndarray) = 5
       THEN [tag |-> "NameError", msg |-> "name 'batch_probiou' is not defined"]
       ELSE [tag |-> "NameError", msg |-> "name 'bbox_ioa' is not defined"]
  ELSE [tag |-> "ok", reads |-> reads,
        val |-> OneMinus(zeros(Len(atlbrs), Len(btlbrs)))]

iou_distance(atracks, btracks) ==
  IF RawBoxes(atracks, btracks) THEN IouOfBoxes(atracks, btracks, 0)
  ELSE IF ~HasAttr(atracks, "angle") \/ ~HasAttr(btracks, "angle")
  THEN [tag |-> "AttributeError"]
  ELSE IouOfBoxes(V([i \in 1..Len(atracks) |-> BoxOf(atracks[i])]),
                  V([j \in 1..Len(btracks) |-> BoxOf(btracks[j])]),
                  Len(atracks) + Len(btracks))

\* the fused similarity returned in place of the fused cost (a deliberate
\* fault)
FuseEntrySimilarity(cost, score) == RatMul(RatSub(One, cost), score)

\* 1 - (1 - cost) * score
FuseEntry(cost, score) == RatSub(One, RatMul(RatSub(One, cost), score))

FuseRow(row, det_scores) ==
  V([j \in 1..BroadcastLen(row, det_scores) |->
       FuseEntry(row[IF Len(row) = 1 THEN 1 ELSE j],
                 det_scores[IF Len(det_scores) = 1 THEN 1 ELSE j])])

\* 1 - (1 - cost_matrix) * det_scores, the scores repeated for every row
FuseRows(cost_matrix, det_scores) ==
  [shape |-> <<cost_matrix.shape[1], BroadcastLen(cost_matrix.rows[1], det_scores)>>,
   rows  |-> V([i \in 1..cost_matrix.shape[1] |-> FuseRow(cost_matrix.rows[i], det_scores)])]

\* fuse_score with the scores read before the size is looked at (a
\* deliberate fault)
FuseScoreReadsFirst(cost_matrix, detections) ==
  IF ~HasAttr(detections, "score") THEN [tag |-> "AttributeError"]
  ELSE IF Size(cost_matrix) = 0
  THEN [tag |-> "ok", reads |-> Len(detections), val |-> cost_matrix]
  ELSE IF ~Broadcastable(cost_matrix.rows[1], detections)
  THEN [tag |-> "ValueError", msg |-> "operands could not be broadcast together"]
  ELSE [tag |-> "ok", reads |-> Len(detections),
        val |-> FuseRows(cost_matrix, V([j \in 1..Len(detections) |-> detections[j].score]))]

fuse_score(cost_matrix, detections) ==
  IF Size(cost_matrix) = 0 THEN [tag |-> "ok", reads |-> 0, val |-> cost_matrix]
  ELSE IF ~HasAttr(detections, "score") THEN [tag |-> "AttributeError"]
  ELSE IF ~Broadcastable(cost_matrix.rows[1], detections)
  THEN [tag |-> "ValueError", msg |-> "operands could not be broadcast together"]
  ELSE [tag |-> "ok", reads |-> Len(detections),
        val |-> FuseRows(cost_matrix, V([j \in 1..Len(detections) |-> detections[j].score]))]

\* ------------------------------------------------------------------------
\* Calls of the matching functions.  The module is imported first: its line
\* 5 has the annotation np.ndarray while the module imports numpy under the
\* name numpy only, so the import raises NameError where annotations are
\* evaluated at the def statement (Python before 3.14) and succeeds where
\* they are deferred.
\* ------------------------------------------------------------------------
\* longest list of tracks or detections
MaxList == 2

Annotations == {"eager", "deferred"}

\* features whose norms and mutual distances are rational; the last one has
\* norm 0
FeaturePool == << <<3, 0>>, <<0, 4>>, <<3, 4>>, <<0, 0>> >>

\* rounding errors of a distance computed in floating point
Roundoff == { Rat(-1, 1024), Zero, Rat(1, 1024) }

\* object k: a track or detection with embeddings, score and boxes; the
\* second one is a rotated box
Object(k) ==
  [smooth_feat |-> RatVec(FeaturePool[k]),
   curr_feat   |-> RatVec(FeaturePool[(k % 3) + 1]),
   score       |-> Rat(k, 4),
   xyxy        |-> RatVec(<<10 * k, 0, 10 * k + 10, 10>>),
   xywha       |-> RatVec(<<10 * k + 5, 5, 10, 10, 0>>),
   angle       |-> IF k = 2 THEN <<Zero>> ELSE <<>>]

\* an object without the attributes the matching functions read
Bare == [track_id |-> 0]

ObjectPool == << Object(1), Object(2), Bare, Object(3), Object(4) >>

BoxPool == << [ndarray |-> RatVec(<<0, 0, 10, 10>>)],
              [ndarray |-> RatVec(<<5, 5, 15, 15>>)],
              [ndarray |-> RatVec(<<20, 20, 30, 30, 0>>)],
              [ndarray |-> RatVec(<<0, 0, 10, 10, 0>>)],
              [ndarray |-> RatVec(<<20, 20, 30, 30>>)] >>

\* the lists of at most MaxList consecutive elements of a pool
Lists(pool) ==
  { SubSeq(pool, w[1], w[2]) :
      w \in { v \in (1..Len(pool)) \X (0..Len(pool)) : v[2] - v[1] + 1 \in 0..MaxList } }

\* costs from 0 to above 1
CostPool == << <<1, 5>>, <<3, 2>>, <<0, 1>>, <<1, 1>> >>

\* the N x M cost matrix of the model
CostMatrix(N, K) ==
  [shape |-> <<N, K>>,
   rows  |-> M([i \in 1..N |-> [j \in 1..K |->
                  Rat(CostPool[((i + j - 2) % 4) + 1][1],
                      CostPool[((i + j - 2) % 4) + 1][2])]])]

CostMatrices == { CostMatrix(N, K) : N \in 0..MaxList, K \in 0..MaxList }

MatchingMetrics == CdistMetrics \cup {"", "mahalanobis2"}

InitMatching ==
  /\ kf = "none"
  /\ tracks = <<>>
  /\ steps = 0
  /\ call \in { [op |-> "import", annotations |-> a] : a \in Annotations }
  /\ ret = NoCall

\* import trackobjs.trackers.utils.matching
ImportMatching ==
  /\ call.op = "import"
  /\ ret = NoCall
  /\ ret' = [op  |-> "import",
             out |-> IF call.annotations = "eager"
                     THEN [tag |-> "NameError", msg |-> "name 'np' is not defined"]
                     ELSE [tag |-> "ok"]]
  /\ UNCHANGED <<kf, tracks, steps, call>>

Imported == ret.op = "import" /\ ret.out.tag = "ok"

CallEmbeddingDistance(ts, ds, metric, err) ==
  /\ Imported
  /\ call' = [op |-> "embedding_distance", tracks |-> ts, detections |-> ds,
              metric |-> metric, roundoff |-> err]
  /\ ret' = [op |-> "embedding_distance",
             out |-> embedding_distance(ts, ds, metric, err)]
  /\ UNCHANGED <<kf, tracks, steps>>

CallIouDistance(as, bs) ==
  /\ Imported
  /\ call' = [op |-> "iou_distance", atracks |-> as, btracks |-> bs]
  /\ ret' = [op |-> "iou_distance", out |-> iou_distance(as, bs)]
  /\ UNCHANGED <<kf, tracks, steps>>

CallFuseScore(cm, ds) ==
  /\ Imported
  /\ call' = [op |-> "fuse_score", cost_matrix |-> cm, detections |-> ds]
  /\ ret' = [op |-> "fuse_score", out |-> fuse_score(cm, ds)]
  /\ UNCHANGED <<kf, tracks, steps>>

NextMatching ==
  \/ ImportMatching
  \/ \E ts \in Lists(ObjectPool), ds \in Lists(ObjectPool), metric \in MatchingMetrics,
        err \in Roundoff : CallEmbeddingDistance(ts, ds, metric, err)
  \/ \E as \in Lists(ObjectPool) \cup Lists(BoxPool),
        bs \in Lists(ObjectPool) \cup Lists(BoxPool) : CallIouDistance(as, bs)
  \/ \E cm \in CostMatrices, ds \in Lists(ObjectPool) : CallFuseScore(cm, ds)

SpecMatching == InitMatching /\ [][NextMatching]_vars

\* ------------------------------------------------------------------------
\* Properties
\* ------------------------------------------------------------------------
IsSymmetric(A) == \A i, j \in 1..Len(A) : A[i][j] = A[j][i]

\* elimination on a symmetric matrix: every pivot is >= 0, and a pivot 0
\* has only zeros below it
RECURSIVE PSDFrom(_, _)
PSDFrom(A, j) ==
  IF j > Len(A) THEN TRUE
  ELSE IF RatSign(A[j][j]) < 0 THEN FALSE
  ELSE IF RatSign(A[j][j]) = 0
  THEN (\A i \in (j + 1)..Len(A) : A[i][j] = Zero) /\ PSDFrom(A, j + 1)
  ELSE PSDFrom(M([i \in 1..Len(A) |-> [k \in 1..Len(A) |->
                    IF i > j /\ k > j
                    THEN RatSub(A[i][k], RatDiv(RatMul(A[i][j], A[j][k]), A[j][j]))
                    ELSE A[i][k]]]), j + 1)

\* symmetric and positive semi-definite
IsPSD(A) == IsSymmetric(A) /\ PSDFrom(A, 1)

IsZeroMatrix(A) == \A i, j \in 1..Len(A) : A[i][j] = Zero

\* the size terms of a state or measurement v are positive
PositiveSize(k, v) ==
  IF k = "XYAH" THEN RatSign(v[4]) > 0 ELSE RatSign(v[3]) > 0 /\ RatSign(v[4]) > 0

HistOps(t) == [i \in 1..Len(t.hist) |-> t.hist[i].op]

\* C1: for both variants and every batch, multi_predict returns for every
\* index the mean and the covariance that predict returns for that state
\* alone.
MultiPredictIsPredictPerState ==
  ret.op = "multi_predict" =>
    /\ Len(ret.out.mean) = Len(ret.arg.mean)
    /\ Len(ret.out.covariance) = Len(ret.arg.mean)
    /\ \A n \in 1..Len(ret.arg.mean) :
         /\ ret.out.mean[n] = predict(kf, ret.arg.mean[n], ret.arg.covariance[n]).mean
         /\ ret.out.covariance[n]
              = predict(kf, ret.arg.mean[n], ret.arg.covariance[n]).covariance

\* a batch of two states of different size and different covariance
MultiPredictOfTwoStates ==
  /\ ret.op = "multi_predict"
  /\ Len(ret.arg.mean) = 2
  /\ ret.arg.mean[1][4] # ret.arg.mean[2][4]
  /\ ret.arg.covariance[1] # ret.arg.covariance[2]

\* C2: from initiate on a valid measurement, after every predict and every
\* update with a valid measurement, the covariance of every track is
\* symmetric and positive semi-definite, in both variants.
CovarianceSymmetricPSD ==
  \A k \in 1..Len(tracks) : IsPSD(tracks[k].covariance)

\* a track of variant B that was corrected and then predicted
TrackPredictedAndUpdated ==
  \E k \in 1..Len(tracks) :
    /\ HistOps(tracks[k]) = <<"initiate", "update", "predict">>
    /\ kf = "XYWH"

\* C3: for a valid measurement m, initiate returns the mean m followed by
\* four zero velocities, and a diagonal covariance whose eight diagonal
\* entries are positive, in both variants.
InitiateMeanAndDiagonalCovariance ==
  ret.op = "initiate" =>
    /\ ret.out.tag = "ok"
    /\ ret.out.mean = RatVec(ret.arg) \o <<Zero, Zero, Zero, Zero>>
    /\ Len(ret.out.covariance) = 2 * ndim
    /\ \A i \in 1..(2 * ndim) :
         /\ Len(ret.out.covariance[i]) = 2 * ndim
         /\ \A j \in 1..(2 * ndim) :
              IF i = j THEN RatSign(ret.out.covariance[i][j]) > 0
              ELSE ret.out.covariance[i][j] = Zero

InitiatedFromValidMeasurement ==
  /\ ret.op = "initiate"
  /\ ret.arg = <<4, 6, 2, 8>>
  /\ kf = "XYWH"
  /\ Len(tracks) = 2

\* C5: after initiate(m); predict; update(z) with z different from m in
\* center-x only, the center-x of the mean lies strictly between the
\* center-x of m and the center-x of z; for variant A, m = [10,10,1,20] and
\* z = [11,10,1,20] it is greater than 10 and less than 11.
DiffersInCenterXOnly(m, z) == m[1] # z[1] /\ \A i \in 2..4 : m[i] = z[i]

StrictlyBetween(x, a, b) ==
  \/ RatLess(Rat(a, 1), x) /\ RatLess(x, Rat(b, 1))
  \/ RatLess(Rat(b, 1), x) /\ RatLess(x, Rat(a, 1))

CenterXBetweenTrackAndMeasurement ==
  \A k \in 1..Len(tracks) :
    ( /\ HistOps(tracks[k]) = <<"initiate", "predict", "update">>
      /\ DiffersInCenterXOnly(tracks[k].hist[1].arg, tracks[k].hist[3].arg) )
    => StrictlyBetween(tracks[k].mean[1], tracks[k].hist[1].arg[1],
                       tracks[k].hist[3].arg[1])

EndToEndScenario ==
  /\ kf = "XYAH"
  /\ Len(tracks) = 1
  /\ tracks[1].hist = << [op |-> "initiate", arg |-> <<10, 10, 1, 20>>],
                         [op |-> "predict", arg |-> <<>>],
                         [op |-> "update", arg |-> <<11, 10, 1, 20>>] >>
  /\ tracks[1].mean[1] = Rat(1315, 121)

\* C4: update with the projected mean as the measurement returns the input
\* mean and a strictly smaller covariance: old - new is positive
\* semi-definite and not zero, and each of the four observed variances
\* decreases.
ConfirmingUpdate ==
  /\ ret.op = "update"
  /\ call.measurement = SubSeq(call.mean, 1, ndim)
  /\ PositiveSize(kf, call.mean)
  /\ IsPSD(call.covariance)

StrictlySmaller(old, new) ==
  /\ IsPSD(MatSub(old, new))
  /\ ~IsZeroMatrix(MatSub(old, new))
  /\ \A i \in 1..ndim : RatLess(new[i][i], old[i][i])

MeanKeptCovarianceShrunk ==
  /\ ret.out.tag = "ok"
  /\ ret.out.mean = call.mean
  /\ StrictlySmaller(call.covariance, ret.out.covariance)

\* C4 as stated: for every positive semi-definite covariance
ConfirmingUpdateShrinksEveryPSD == ConfirmingUpdate => MeanKeptCovarianceShrunk

\* C4 amended: for every positive semi-definite covariance whose four
\* observed variances are positive
ConfirmingUpdateShrinks ==
  ( /\ ConfirmingUpdate
    /\ \A i \in 1..ndim : RatSign(call.covariance[i][i]) > 0 )
  => MeanKeptCovarianceShrunk

ConfirmingUpdateOfSingularCovariance ==
  /\ ConfirmingUpdate
  /\ call.covariance = Diag(RatVec(NoVelocityVariances))
  /\ ret.out.tag = "ok"

\* C6: update with a covariance that is not positive semi-definite returns
\* no result; it ends in the numerical error of the Cholesky step.
NonPSDUpdateFailsNumerically ==
  ( /\ ret.op = "update"
    /\ Len(call.measurement) = ndim
    /\ IsSymmetric(call.covariance)
    /\ ~IsPSD(call.covariance) )
  => ret.out.tag = "LinAlgError"

\* C7: initiate with a size term that is zero or negative fails; it returns
\* no covariance.
InvalidMeasurementRejected ==
  ( /\ ret.op = "initiate"
    /\ Len(call.measurement) = ndim
    /\ ~PositiveSize(kf, RatVec(call.measurement)) )
  => ret.out.tag # "ok"

\* C8: an operation given a vector of the wrong length fails: initiate with
\* a measurement that has not 4 components, update with such a measurement,
\* and gating_distance with only_position and measurements that have not 4
\* columns.
WrongLengthRejected ==
  /\ (ret.op = "initiate" /\ Len(call.measurement) # ndim) => ret.out.tag # "ok"
  /\ (ret.op = "update" /\ Len(call.measurement) # ndim) => ret.out.tag # "ok"
  /\ (ret.op = "gating_distance" /\ call.only_position /\ call.measurements.cols # ndim)
       => ret.out.tag # "ok"

\* C9: gating_distance with a metric name other than "gaussian" and "maha"
\* raises ValueError, for every state, every measurement array and either
\* value of only_position; it returns no distances.
UnknownMetricIsValueError ==
  (ret.op = "gating_distance" /\ call.metric \notin Metrics) => ret.out.tag = "ValueError"

UnknownMetricOnValidInput ==
  /\ ret.op = "gating_distance"
  /\ call.metric = "euclidean"
  /\ call.only_position
  /\ call.measurements.cols = ndim
  /\ Len(call.measurements.rows) = 2
  /\ ret.out.msg = "Invalid distance metric"

\* the matrix has the shape N x K and no entries
EmptyMatrix(matrix, N, K) ==
  /\ N * K = 0
  /\ matrix.shape = <<N, K>>
  /\ Len(matrix.rows) = N
  /\ \A i \in 1..N : matrix.rows[i] = <<>>

\* every element is a box array or a track with its boxes and angle
WellFormedBoxes(objects) ==
  \A i \in 1..Len(objects) :
    IsArray(objects[i]) \/ {"angle", "xyxy", "xywha"} \subseteq DOMAIN objects[i]

\* C10: with no tracks or no detections embedding_distance and iou_distance
\* return the N x M matrix without entries and raise nothing; fuse_score on
\* an empty cost matrix returns that matrix and reads no detection.
EmptyInputsGiveEmptyMatrix ==
  /\ ( /\ ret.op = "embedding_distance"
       /\ (call.tracks = <<>> \/ call.detections = <<>>) )
     => /\ ret.out.tag = "ok"
        /\ EmptyMatrix(ret.out.val, Len(call.tracks), Len(call.detections))
  /\ ( /\ ret.op = "iou_distance"
       /\ (call.atracks = <<>> \/ call.btracks = <<>>)
       /\ WellFormedBoxes(call.atracks) /\ WellFormedBoxes(call.btracks) )
     => /\ ret.out.tag = "ok"
        /\ EmptyMatrix(ret.out.val, Len(call.atracks), Len(call.btracks))
  /\ (ret.op = "fuse_score" /\ Size(call.cost_matrix) = 0)
     => /\ ret.out.tag = "ok"
        /\ ret.out.val = call.cost_matrix
        /\ ret.out.reads = 0

\* fuse_score on a 2 x 0 matrix with a detection that has no score
FuseScoreOfEmptyMatrix ==
  /\ ret.op = "fuse_score"
  /\ call.cost_matrix.shape = <<2, 0>>
  /\ \E j \in 1..Len(call.detections) : "score" \notin DOMAIN call.detections[j]
  /\ ret.out.tag = "ok"

BoxesOfLength(boxes, n) ==
  \A i \in 1..Len(boxes) : IsArray(boxes[i]) /\ Len(boxes[i].ndarray) = n

\* the axis-aligned boxes (x1, y1, x2, y2) a and b do not overlap
Disjoint(a, b) ==
  \/ RatLeq(a[3], b[1]) \/ RatLeq(b[3], a[1])
  \/ RatLeq(a[4], b[2]) \/ RatLeq(b[4], a[2])

PositiveArea(a) == RatLess(a[1], a[3]) /\ RatLess(a[2], a[4])

\* C12: on two non-empty lists of axis-aligned boxes iou_distance returns
\* the matrix of 1 - IoU with rows for the first list and columns for the
\* second: 0 for the same box of positive area, 1 for disjoint boxes.
IouDistanceOfAxisAlignedBoxes ==
  ( /\ ret.op = "iou_distance"
    /\ call.atracks # <<>> /\ call.btracks # <<>>
    /\ BoxesOfLength(call.atracks, 4) /\ BoxesOfLength(call.btracks, 4) )
  => /\ ret.out.tag = "ok"
     /\ ret.out.val.shape = << Len(call.atracks), Len(call.btracks) >>
     /\ \A i \in 1..Len(call.atracks) : \A j \in 1..Len(call.btracks) :
          /\ ( /\ call.atracks[i] = call.btracks[j]
               /\ PositiveArea(call.atracks[i].ndarray) )
             => ret.out.val.rows[i][j] = Zero
          /\ Disjoint(call.atracks[i].ndarray, call.btracks[j].ndarray)
             => ret.out.val.rows[i][j] = One
\* a number below zero; NaN is not a number and not below zero
Negative(x) == ~IsNaN(x) /\ RatSign(x) < 0

NoNegativeEntry(matrix) ==
  \A i \in 1..Len(matrix.rows) : \A j \in 1..Len(matrix.rows[i]) :
    ~Negative(matrix.rows[i][j])

\* every score is a number in [0, 1]
ScoresInUnitInterval(detections) ==
  \A j \in 1..Len(detections) :
    /\ "score" \in DOMAIN detections[j]
    /\ RatLeq(Zero, detections[j].score) /\ RatLeq(detections[j].score, One)

SquaredPositionDistance(mean, a) ==
  RatAdd(RatSquare(RatSub(a[1], mean[1])), RatSquare(RatSub(a[2], mean[2])))

\* b is displaced from the position of mean in the direction of a, t times
\* as far
DisplacedTimes(mean, a, b, t) ==
  /\ RatSub(b[1], mean[1]) = RatMul(t, RatSub(a[1], mean[1]))
  /\ RatSub(b[2], mean[2]) = RatMul(t, RatSub(a[2], mean[2]))

\* b is displaced further than a from the position of mean, along the same
\* direction
DisplacedFurther(mean, a, b) ==
  IF a[1] = mean[1] /\ a[2] = mean[2]
  THEN b[1] # mean[1] \/ b[2] # mean[2]
  ELSE \E t \in {Rat(3, 2), Rat(2, 1), Rat(3, 1)} : DisplacedTimes(mean, a, b, t)

\* C14: with metric "gaussian" and only_position = True gating_distance
\* returns for every measurement the squared Euclidean distance of its first
\* two components from (cx, cy) of the track, whatever the sizes and the
\* covariance: 0 at the track's position and strictly more for a measurement
\* displaced further along the same direction.
GaussianPositionDistance ==
  ( /\ ret.op = "gating_distance"
    /\ call.metric = "gaussian"
    /\ call.only_position
    /\ call.measurements.cols >= 2 )
  => /\ ret.out.tag = "ok"
     /\ Len(ret.out.val) = Len(call.measurements.rows)
     /\ \A n \in 1..Len(call.measurements.rows) :
          /\ ret.out.val[n] = SquaredPositionDistance(call.mean, call.measurements.rows[n])
          /\ ( /\ call.measurements.rows[n][1] = call.mean[1]
               /\ call.measurements.rows[n][2] = call.mean[2] )
             => ret.out.val[n] = Zero
          /\ \A k \in 1..Len(call.measurements.rows) :
               DisplacedFurther(call.mean, call.measurements.rows[n],
                                call.measurements.rows[k])
               => RatLess(ret.out.val[n], ret.out.val[k])

\* one measurement at the track's position and one displaced from it, for a
\* track whose covariance is not the identity
GatingAtAndOffThePosition ==
  /\ ret.op = "gating_distance"
  /\ call.metric = "gaussian"
  /\ call.only_position
  /\ call.measurements.cols = 4
  /\ Len(call.measurements.rows) = 2
  /\ ret.out.tag = "ok"
  /\ call.covariance[1][1] # One
  /\ ret.out.val = << Zero, One >>
\* the call h of a track's history applied to the belief b of that track
\* and to nothing else
AloneStep(k, b, h) ==
  IF h.op = "initiate" THEN Belief(initiate(k, RatVec(h.arg)))
  ELSE IF h.op = "predict" THEN predict(k, b.mean, b.covariance)
  ELSE Belief(update(k, b.mean, b.covariance, RatVec(h.arg)))

\* the tracks a call on track k leaves alone are as they were
OthersUntouched(k) ==
  /\ Len(tracks') = Len(tracks)
  /\ \A i \in 1..Len(tracks) : i # k => tracks'[i] = tracks[i]

SizeTerm(k, m, i) ==
  IF k = "XYAH" THEN m[4] ELSE IF i \in {1, 3} THEN m[3] ELSE m[4]

\* the term is one of the two constant aspect-ratio terms of variant A
ConstantTerm(k, i) == k = "XYAH" /\ i = 3

AdvancedMean(mean) ==
  V([i \in 1..(2 * ndim) |->
       IF i <= ndim THEN RatAdd(mean[i], mean[ndim + i]) ELSE mean[i]])

\* the mean of initiate(m): m and four zero velocities
InitialMean(m) == RatVec(m) \o V([i \in 1..ndim |-> Zero])

\* C17: every predict and multi_predict step maps the mean to F * mean, and
\* a track that was initiated from m and predicted any number of times
\* without an update still has the mean m with zero velocities.
VelocitiesChangeOnlyThroughUpdate ==
  [][ /\ ret'.op = "predict"
         => tracks'[ret'.arg].mean = AdvancedMean(tracks[ret'.arg].mean)
      /\ ret'.op = "multi_predict"
         => \A k \in 1..Len(tracks) : tracks'[k].mean = AdvancedMean(tracks[k].mean)
      /\ \A k \in 1..Len(tracks') :
           (\A i \in 1..Len(tracks'[k].hist) : tracks'[k].hist[i].op # "update")
           => tracks'[k].mean = InitialMean(tracks'[k].hist[1].arg) ]_vars

\* a track predicted after an update gave it a velocity along x
PredictOfMovingTrack ==
  \E k \in 1..Len(tracks) :
    /\ HistOps(tracks[k]) = <<"initiate", "predict", "update", "predict">>
    /\ tracks[k].mean[ndim + 1] # Zero
    /\ ret.op = "predict"
\* C18 as stated: for every state each of the four observation-noise
\* standard deviations of project is strictly larger than the position/size
\* process-noise standard deviation of predict.
ObservationNoiseCoarser ==
  \A k \in 1..Len(tracks) : \A i \in 1..ndim :
    RatLess(PredictStd(kf, tracks[k].mean)[i], ProjectStd(kf, tracks[k].mean)[i])

\* C18 amended: the observation-noise standard deviations that scale with
\* the size equal the process-noise ones, k_p * size; only the aspect-ratio
\* term of variant A is larger, 1e-1 against 1e-2.
ObservationNoiseNotFiner ==
  \A k \in 1..Len(tracks) : \A i \in 1..ndim :
    IF ConstantTerm(kf, i)
    THEN /\ ProjectStd(kf, tracks[k].mean)[i] = Rat(1, 10)
         /\ PredictStd(kf, tracks[k].mean)[i] = Rat(1, 100)
    ELSE /\ ProjectStd(kf, tracks[k].mean)[i] = PredictStd(kf, tracks[k].mean)[i]
         /\ ProjectStd(kf, tracks[k].mean)[i]
              = RatDiv(SizeTerm(kf, tracks[k].mean, i), Rat(20, 1))

\* a track of variant A that predict and then update, with its projection,
\* have acted on
TrackPredictedAndProjected ==
  \E k \in 1..Len(tracks) :
    /\ HistOps(tracks[k]) = <<"initiate", "predict", "update">>
    /\ kf = "XYAH"
AllArrays(objects) == \A i \in 1..Len(objects) : IsArray(objects[i])

\* every element is a track with its angle and both forms of its box
AllTracks(objects) ==
  \A i \in 1..Len(objects) : {"angle", "xyxy", "xywha"} \subseteq DOMAIN objects[i]

\* the numbers of the box that x stands for: those of the array, 5 for a
\* track with an angle and 4 for a track without
BoxNumbers(x) ==
  IF IsArray(x) THEN Len(x.ndarray) ELSE IF x.angle # <<>> THEN 5 ELSE 4

\* every box of both lists has n numbers
EveryBoxHas(n) ==
  /\ \A i \in 1..Len(call.atracks) : BoxNumbers(call.atracks[i]) = n
  /\ \A j \in 1..Len(call.btracks) : BoxNumbers(call.btracks[j]) = n

\* the call went to the function of the given name
WentTo(name) ==
  /\ ret.out.tag = "NameError"
  /\ ret.out.msg = "name '" \o name \o "' is not defined"

\* C19: for two lists of arrays or two lists of tracks, iou_distance applies
\* the rotated IoU only when every box of both lists has 5 numbers and the
\* axis-aligned IoU only when every box has 4, and it returns no matrix for
\* lists that mix the two.
FormulaMatchesEveryBox ==
  ( /\ ret.op = "iou_distance"
    /\ \/ AllArrays(call.atracks) /\ AllArrays(call.btracks)
       \/ AllTracks(call.atracks) /\ AllTracks(call.btracks) )
  => /\ WentTo("batch_probiou") => EveryBoxHas(5)
     /\ WentTo("bbox_ioa") => EveryBoxHas(4)
     /\ ret.out.tag = "ok" => (EveryBoxHas(4) \/ EveryBoxHas(5))
\* C20: embedding_distance with a metric name that cdist does not know
\* raises ValueError for all tracks and detections with embeddings, an
\* empty list of tracks or detections included, and returns no matrix.
UnknownEmbeddingMetricIsValueError ==
  ( /\ ret.op = "embedding_distance"
    /\ call.metric \notin CdistMetrics
    /\ HasAttr(call.tracks, "smooth_feat")
    /\ HasAttr(call.detections, "curr_feat") )
  => ret.out.tag = "ValueError"
\* the observation-noise standard deviations of variant k for a state mean:
\* k_p*w, k_p*h, k_p*w, k_p*h for width and height, and the height-scaled
\* terms with the constant 1e-1 for aspect ratio and height
ObservationStd(k, mean) ==
  IF k = "XYWH"
  THEN << RatMul(_std_weight_position, mean[3]), RatMul(_std_weight_position, mean[4]),
          RatMul(_std_weight_position, mean[3]), RatMul(_std_weight_position, mean[4]) >>
  ELSE << RatMul(_std_weight_position, mean[4]), RatMul(_std_weight_position, mean[4]),
          Rat(1, 10), RatMul(_std_weight_position, mean[4]) >>

\* the projected belief of variant k: the observed half of the mean, and
\* the observed block of the covariance plus the observation noise
ProjectedBelief(k, mean, covariance) ==
  [mean       |-> SubSeq(mean, 1, ndim),
   covariance |-> M([i \in 1..ndim |-> [j \in 1..ndim |->
                       IF i = j
                       THEN RatAdd(covariance[i][i], RatSquare(ObservationStd(k, mean)[i]))
                       ELSE covariance[i][j]]])]

\* C21: update and gating_distance of either variant work on the projected
\* belief of that variant, so that variant XYWH corrects and gates with the
\* observation noise k_p*w, k_p*h, k_p*w, k_p*h and never with the
\* height-scaled terms and the constant 1e-1 of variant XYAH; from the
\* projected belief on, the gain, the corrected mean, the corrected
\* covariance and the distances are computed by the same steps in both
\* variants.
VariantsDifferInProjectionOnly ==
  /\ ret.op = "update"
     => ret.out = UpdateProjected(call.mean, call.covariance, call.measurement,
                                  ProjectedBelief(kf, call.mean, call.covariance))
  /\ ret.op = "gating_distance"
     => ret.out = GatingProjected(ProjectedBelief(kf, call.mean, call.covariance),
                                  call.measurements, call.only_position, call.metric)

\* an update of variant XYWH that succeeds, on a state for which the
\* projection of variant XYAH gives another corrected belief
UpdateOfWidthHeightVariant ==
  /\ kf = "XYWH"
  /\ ret.op = "update"
  /\ ret.out.tag = "ok"
  /\ UpdateProjected(call.mean, call.covariance, call.measurement,
                     ProjectedBelief("XYAH", call.mean, call.covariance)).tag = "ok"
  /\ ret.out # UpdateProjected(call.mean, call.covariance, call.measurement,
                               ProjectedBelief("XYAH", call.mean, call.covariance))
====
